---------------------------- MODULE Spec2Model ----------------------------
(***************************************************************************)
(* Model of package analytics (system/api/analytics/init.go): the buffered *)
(* recorder (Record), the scheduler loop (serve) with its batch writer and *)
(* retention pruner, and the 14-day report (ChartData).                    *)
(*                                                                         *)
(* Time is in the units of the source: Unix seconds for instants,          *)
(* milliseconds for apiRequest.Timestamp.  The clock values of the model   *)
(* lie in January 1970 so that millisecond values stay inside the integer  *)
(* range of the model checker; all date arithmetic is translation          *)
(* invariant, so nothing depends on the choice of the month.               *)
(***************************************************************************)
EXTENDS Integers, Sequences, FiniteSets, TLC

VARIABLES
    store,          \* the "requests" bucket of analytics.db: key -> stored value
    sequence,       \* the bucket's key sequence (last key handed out)
    storeOpen,      \* store is open (Init done, Close not called)
    bucketExists,   \* analytics.db has the bucket "requests"
    requestChan,    \* the buffered channel of apiRequest
    now,            \* the wall clock, Unix seconds
    loc,            \* offset of the process's local time zone, seconds east of UTC
    result,         \* what the last call of ChartData returned
    initPc,         \* where Init stands
    recPc,          \* per caller of Record: where it stands
    recR,           \* per caller of Record: its local r
    servePc,        \* where the goroutine serve stands
    apiRequestTimerC, \* a tick waits in apiRequestTimer.C
    pruneDBTimerC,  \* a tick waits in pruneDBTimer.C
    afterC,         \* the time.After timer of the current select has fired
    threshold,      \* the argument of the running batchPrune
    reqs,           \* the batch batchInsert has drained so far
    batchSize,      \* the records that were queued when the drain began
    lastErr,        \* the error of serve's last invocation (what it logs)
    hist            \* history: what became of the recorded events

-----------------------------------------------------------------------------
(* Units *)

SecondsPerHour == 3600
SecondsPerDay == 86400
MillisPerSecond == 1000

\* len(times), len(dates), len(ips), len(total), len(unique)
NumDays == 14

\* Go's integer division truncates toward zero.
GoDiv(a, b) == IF a >= 0 THEN a \div b ELSE -((-a) \div b)

-----------------------------------------------------------------------------
(* Calendar: what now.Year(), now.Month(), now.Day() and time.Date do *)

\* The civil date (proleptic Gregorian) of day number z, days since 1970-01-01.
CivilFromDays(z) ==
    LET zz  == z + 719468
        era == zz \div 146097
        doe == zz - era * 146097
        yoe == (doe - doe \div 1460 + doe \div 36524 - doe \div 146096) \div 365
        doy == doe - (365 * yoe + yoe \div 4 - yoe \div 100)
        mp  == (5 * doy + 2) \div 153
        d   == doy - (153 * mp + 2) \div 5 + 1
        m   == IF mp < 10 THEN mp + 3 ELSE mp - 9
        y   == yoe + era * 400 + (IF m <= 2 THEN 1 ELSE 0)
    IN  [year |-> y, month |-> m, day |-> d]

\* The day number of a civil date.
DaysFromCivil(y, m, d) ==
    LET yy  == IF m <= 2 THEN y - 1 ELSE y
        era == yy \div 400
        yoe == yy - era * 400
        mp  == IF m > 2 THEN m - 3 ELSE m + 9
        doy == (153 * mp + 2) \div 5 + d - 1
        doe == yoe * 365 + yoe \div 4 - yoe \div 100 + doy
    IN  era * 146097 + doe - 719468

\* The date fields of instant t (Unix seconds) as seen in a zone `offset`
\* seconds east of UTC: Time.Year(), Time.Month(), Time.Day().
DateIn(t, offset) == CivilFromDays((t + offset) \div SecondsPerDay)

\* time.Date(y, m, d, 0, 0, 0, 0, time.UTC) as Unix seconds.
DateUTC(y, m, d) == DaysFromCivil(y, m, d) * SecondsPerDay

Digits == <<"0", "1", "2", "3", "4", "5", "6", "7", "8", "9">>

TwoDigits(n) == <<Digits[((n \div 10) % 10) + 1], Digits[(n % 10) + 1]>>

\* day.Format("01/02") of a time in UTC: zero-padded month, "/", zero-padded day.
FormatMMDD(t) ==
    LET c == DateIn(t, 0)
    IN  TwoDigits(c.month) \o <<"/">> \o TwoDigits(c.day)

-----------------------------------------------------------------------------
(* JSON *)

RECURSIVE Itoa(_)
Itoa(n) == IF n < 10 THEN <<Digits[n + 1]>>
           ELSE Itoa(n \div 10) \o <<Digits[(n % 10) + 1]>>

RECURSIVE JoinInts(_, _)
JoinInts(a, i) ==
    IF i > NumDays - 1 THEN <<>>
    ELSE (IF i = 0 THEN <<>> ELSE <<",">>) \o Itoa(a[i]) \o JoinInts(a, i + 1)

\* The series serialized from its second entry on (json.Marshal(a[1:])).
MarshalIntsTail(a) == <<"[">> \o Tail(JoinInts(a, 1)) \o <<"]">>

\* json.Marshal of a [14]int: "[n0,n1,...,n13]" as a sequence of characters.
MarshalInts(a) == <<"[">> \o JoinInts(a, 0) \o <<"]">>

-----------------------------------------------------------------------------
(* Stored values *)

\* The zero apiRequest.
ZeroRequest ==
    [URL |-> <<>>, Method |-> "", Origin |-> "", Proto |-> "",
     RemoteAddr |-> "", Timestamp |-> 0, External |-> FALSE]

\* Marshal with the Timestamp field left out of the object (a json:"-" tag).
MarshalNoTimestamp(r) ==
    [valid |-> TRUE, url |-> r.URL, http_method |-> r.Method, origin |-> r.Origin,
     http_protocol |-> r.Proto, ip_address |-> r.RemoteAddr,
     timestamp |-> 0, external |-> r.External]

\* json.Marshal of an apiRequest: an object under the struct's json tags.
Marshal(r) ==
    [valid |-> TRUE, url |-> r.URL, http_method |-> r.Method, origin |-> r.Origin,
     http_protocol |-> r.Proto, ip_address |-> r.RemoteAddr,
     timestamp |-> r.Timestamp, external |-> r.External]

\* json.Unmarshal(v, &r): an error for a value that is no JSON object of the
\* struct's shape, else the struct filled from the tagged members.
Unmarshal(v) ==
    IF ~v.valid THEN [err |-> TRUE, r |-> ZeroRequest]
    ELSE [err |-> FALSE,
          r |-> [URL |-> v.url, Method |-> v.http_method, Origin |-> v.origin,
                 Proto |-> v.http_protocol, RemoteAddr |-> v.ip_address,
                 Timestamp |-> v.timestamp, External |-> v.external]]

\* A stored value that does not decode.
Undecodable ==
    [valid |-> FALSE, url |-> <<>>, http_method |-> "", origin |-> "",
     http_protocol |-> "", ip_address |-> "", timestamp |-> 0, external |-> FALSE]

\* The apiRequest Record builds for a GET of /api/content from addr at ts.
RequestAt(addr, ts) ==
    [URL |-> <<"api", "content">>, Method |-> "GET", Origin |-> "",
     Proto |-> "HTTP/1.1", RemoteAddr |-> addr, Timestamp |-> ts,
     External |-> FALSE]

RECURSIVE KeysInOrder(_)
\* The keys of a bucket in the order ForEach visits them.
KeysInOrder(keys) ==
    IF keys = {} THEN <<>>
    ELSE LET k == CHOOSE x \in keys : \A y \in keys : x <= y
         IN  <<k>> \o KeysInOrder(keys \ {k})

RECURSIVE DecodeAllStop(_, _, _)
\* A ForEach whose callback returns the decoding error: the scan ends at the
\* first value that does not decode.
DecodeAllStop(b, keys, i) ==
    IF i > Len(keys) THEN <<>>
    ELSE LET u == Unmarshal(b[keys[i]])
         IN  IF u.err THEN <<>> ELSE <<u.r>> \o DecodeAllStop(b, keys, i + 1)

RECURSIVE DecodeAll(_, _, _)
\* b.ForEach in ChartData: append every value that decodes, skip (and log)
\* every value that does not.
DecodeAll(b, keys, i) ==
    IF i > Len(keys) THEN <<>>
    ELSE LET u == Unmarshal(b[keys[i]])
         IN  (IF u.err THEN <<>> ELSE <<u.r>>) \o DecodeAll(b, keys, i + 1)

-----------------------------------------------------------------------------
(* ChartData *)

Buckets == 0 .. (NumDays - 1)

\* today := time.Date(now.Year(), now.Month(), now.Day(), 0, 0, 0, 0, time.UTC)
\* where now := time.Now() carries the process's local zone.
Today(t, offset) ==
    LET c == DateIn(t, offset)
    IN  DateUTC(c.year, c.month, c.day)

\* The loop over i := range times: times[len(times)-1-i] = today + Hour * (24*i*-1).
Times(today) ==
    [k \in Buckets |-> today + SecondsPerHour * (24 * ((NumDays - 1) - k) * (-1))]

\* dates[len(times)-1-i] = day.Format("01/02")
Dates(times) == [k \in Buckets |-> FormatMMDD(times[k])]

\* total := [14]int{}, unique := [14]int{}
ZeroCounts == [k \in Buckets |-> 0]

\* ips[i] = make(map[string]struct{})
EmptyIPs == [k \in Buckets |-> {}]

\* The record keeping of one bucket: total[k]++ and, for an address not yet
\* in ips[k], unique[k]++ and ips[k][addr] = struct{}{}.  An index outside the
\* arrays is a run-time panic.
Count(acc, k, addr) ==
    IF k \notin Buckets THEN [acc EXCEPT !.panic = TRUE]
    ELSE [acc EXCEPT
            !.total[k]  = @ + 1,
            !.unique[k] = IF addr \in acc.ips[k] THEN @ ELSE @ + 1,
            !.ips[k]    = @ \cup {addr}]

RECURSIVE CheckRequest(_, _, _, _, _)
\* The inner loop for j := range times of one request, from index j on.
CheckRequest(acc, times, ts, addr, j) ==
    IF j > NumDays - 1 \/ acc.panic THEN acc
    ELSE IF j = NumDays - 1 /\ ts >= times[j]
         THEN Count(acc, j, addr)                       \* continue CHECK_REQUEST
    ELSE IF ts = times[j]
         THEN Count(acc, j, addr)                       \* continue CHECK_REQUEST
    ELSE IF ts < times[j]
         THEN IF j = 0
              THEN acc                                  \* continue CHECK_REQUEST
              ELSE CheckRequest(Count(acc, j - 1, addr), times, ts, addr, j + 1)
    ELSE CheckRequest(acc, times, ts, addr, j + 1)

RECURSIVE CheckRequests(_, _, _, _)
\* The outer loop for i := range requests.
CheckRequests(acc, times, requests, i) ==
    IF i > Len(requests) \/ acc.panic THEN acc
    ELSE LET ts == GoDiv(requests[i].Timestamp, MillisPerSecond)
         IN  CheckRequests(
                 CheckRequest(acc, times, ts, requests[i].RemoteAddr, 0),
                 times, requests, i + 1)

\* The counters of ChartData for decoded requests at clock t in zone offset.
Tally(requests, t, offset) ==
    CheckRequests([total |-> ZeroCounts, unique |-> ZeroCounts,
                   ips |-> EmptyIPs, panic |-> FALSE],
                  Times(Today(t, offset)), requests, 1)

\* A nil map.
NilMap == <<>>

NoResult == [called |-> FALSE, err |-> FALSE, panic |-> FALSE, at |-> 0, ret |-> NilMap]

\* A ChartData that hands back the date labels it has already built beside
\* the error of a failed read.
ChartDataResultPartial(b, open, t, offset) ==
    LET dates == Dates(Times(Today(t, offset)))
    IN  IF ~open
        THEN [called |-> TRUE, err |-> TRUE, panic |-> FALSE, at |-> t,
              ret |-> [dates |-> dates]]
        ELSE LET acc == Tally(DecodeAll(b, KeysInOrder(DOMAIN b), 1), t, offset)
             IN  [called |-> TRUE, err |-> FALSE, panic |-> acc.panic, at |-> t,
                  ret |-> [dates  |-> dates,
                           unique |-> MarshalInts(acc.unique),
                           total  |-> MarshalInts(acc.total),
                           from   |-> dates[0],
                           to     |-> dates[NumDays - 1]]]

\* What ChartData returns for bucket b, read while the store is open or not,
\* at clock t in zone offset.
ChartDataResult(b, open, t, offset) ==
    IF ~open
    THEN [called |-> TRUE, err |-> TRUE, panic |-> FALSE, at |-> t, ret |-> NilMap]
    ELSE LET times    == Times(Today(t, offset))
             dates    == Dates(times)
             requests == DecodeAll(b, KeysInOrder(DOMAIN b), 1)
             acc      == Tally(requests, t, offset)
         IN  IF acc.panic
             THEN [called |-> TRUE, err |-> FALSE, panic |-> TRUE, at |-> t,
                   ret |-> NilMap]
             ELSE [called |-> TRUE, err |-> FALSE, panic |-> FALSE, at |-> t,
                   ret |-> [dates  |-> dates,
                            unique |-> MarshalInts(acc.unique),
                            total  |-> MarshalInts(acc.total),
                            from   |-> dates[0],
                            to     |-> dates[NumDays - 1]]]

-----------------------------------------------------------------------------
(* Reading a result back *)

DigitValue(c) == (CHOOSE i \in 1 .. 10 : Digits[i] = c) - 1

RECURSIVE ParseFrom(_, _, _, _, _)
ParseFrom(s, i, cur, have, out) ==
    IF i > Len(s) THEN out
    ELSE IF s[i] = "[" THEN ParseFrom(s, i + 1, 0, FALSE, out)
    ELSE IF s[i] = "," \/ s[i] = "]"
         THEN ParseFrom(s, i + 1, 0, FALSE, IF have THEN Append(out, cur) ELSE out)
    ELSE ParseFrom(s, i + 1, cur * 10 + DigitValue(s[i]), TRUE, out)

\* The integers of a serialized series: ParseInts("[3,0,12]") = <<3, 0, 12>>.
ParseInts(s) == ParseFrom(s, 1, 0, FALSE, <<>>)

\* A call of ChartData has returned a result and a nil error.
Returned(res) == res.called /\ ~res.err /\ ~res.panic

\* The totals and the unique counts of a returned result, by bucket 0..13.
TotalOf(res) == LET a == ParseInts(res.ret.total) IN [k \in Buckets |-> a[k + 1]]
UniqueOf(res) == LET a == ParseInts(res.ret.unique) IN [k \in Buckets |-> a[k + 1]]

\* UTC midnight of instant t: the greatest multiple of a day that is <= t.
UTCMidnight(t) == (t \div SecondsPerDay) * SecondsPerDay

\* The boundaries of section 4.5 at instant t, oldest first, B[13] = today.
B(t) == [k \in Buckets |-> UTCMidnight(t) - ((NumDays - 1) - k) * SecondsPerDay]

\* The bucket section 4.5 assigns to a timestamp ts (milliseconds) at
\* instant t, or -1 for a record outside the window.
BucketOf(ts, t) ==
    IF ts < B(t)[0] * MillisPerSecond THEN -1
    ELSE CHOOSE k \in Buckets :
           /\ ts >= B(t)[k] * MillisPerSecond
           /\ (k < NumDays - 1 => ts < B(t)[k + 1] * MillisPerSecond)

\* The keys of bucket b whose values decode.
Decodable(b) == {k \in DOMAIN b : ~Unmarshal(b[k]).err}

-----------------------------------------------------------------------------
(* The pipeline: Init, Record, serve *)

\* Concurrent callers of Record; each is a request handler that calls Record once.
NumCallers == 2

\* cap(requestChan); the program allocates 1024*64*runtime.NumCPU().
QueueCap == 1

Callers == 1 .. NumCallers

\* pruneThreshold := time.Hour * 24 * 14, in seconds
pruneThreshold == SecondsPerHour * 24 * 14

\* The clock values of a run, in order: a first instant and the instant one
\* prune period (pruneThreshold / 2) later.
Instants ==
    LET t == 16 * SecondsPerDay + 2 * SecondsPerHour
    IN  <<t, t + pruneThreshold \div 2>>

\* Values already in analytics.db when the process starts: one strictly
\* older than the first cutoff, one exactly at it, one ten days old, and one
\* that does not decode.
DiskValues ==
    LET cutoff == Instants[1] - pruneThreshold
    IN  <<Marshal(RequestAt("10.0.0.9:443", (cutoff - 1) * MillisPerSecond)),
          Marshal(RequestAt("10.0.0.9:443", cutoff * MillisPerSecond)),
          Undecodable,
          Marshal(RequestAt("10.0.0.8:443",
                            (Instants[1] - 10 * SecondsPerDay) * MillisPerSecond))>>

\* A database file that is not there yet: bolt.Open creates it, empty.
FreshDisk == <<>>

DiskStores == {DiskValues, FreshDisk}

\* The request caller p passes to Record; the query names the caller, so
\* that no two recorded events are equal.
QueryNames == <<"id=1", "id=2", "id=3", "id=4", "id=5", "id=6">>

Requests(p) ==
    IF p % 2 = 1
    THEN {[Path |-> <<"api", "external", "content">>, RawQuery |-> QueryNames[p],
           Method |-> "POST", Origin |-> "https://example.org",
           Proto |-> "HTTP/2.0", RemoteAddr |-> "10.0.0.2:5000"]}
    ELSE {[Path |-> <<"api", "content">>, RawQuery |-> QueryNames[p],
           Method |-> "GET", Origin |-> "", Proto |-> "HTTP/1.1",
           RemoteAddr |-> "10.0.0.1:5000"]}

\* strings.Contains(req.URL.Path, "/external/"): a segment "external" that
\* is followed by another segment.
IsExternal(path) == \E i \in 1 .. (Len(path) - 1) : path[i] = "external"

\* req.URL.String(): the path, "?", the query.
URLString(req) == req.Path \o <<"?", req.RawQuery>>

\* An apiRequest stamped with time.Now().Unix(), in seconds.
NewRequestSeconds(req, t) ==
    [URL |-> URLString(req), Method |-> req.Method, Origin |-> req.Origin,
     Proto |-> req.Proto, RemoteAddr |-> req.RemoteAddr,
     Timestamp |-> t, External |-> IsExternal(req.Path)]

\* r := apiRequest{...} in Record, built at clock t.
NewRequest(req, t) ==
    [URL |-> URLString(req), Method |-> req.Method, Origin |-> req.Origin,
     Proto |-> req.Proto, RemoteAddr |-> req.RemoteAddr,
     Timestamp |-> t * MillisPerSecond, External |-> IsExternal(req.Path)]

NoHist == [sent |-> {}, returned |-> {}, unblocked |-> FALSE, lost |-> {},
           deleted |-> {}, prunedAt |-> -1, repeated |-> FALSE]

reportVars == <<loc, result>>
storeVars == <<store, sequence, storeOpen, bucketExists>>
recVars == <<recPc, recR>>
timerVars == <<apiRequestTimerC, pruneDBTimerC, afterC>>
serveVars == <<servePc, threshold, reqs, batchSize, lastErr>>
vars == <<store, sequence, storeOpen, bucketExists, requestChan, now, loc, result, initPc,
          recPc, recR, servePc, apiRequestTimerC, pruneDBTimerC, afterC,
          threshold, reqs, batchSize, lastErr, hist>>

\* Nothing of the pipeline has run.
PipelineAtStart ==
    /\ requestChan = <<>>
    /\ recPc = [p \in Callers |-> "idle"]
    /\ recR = [p \in Callers |-> ZeroRequest]
    /\ servePc = "off"
    /\ apiRequestTimerC = FALSE
    /\ pruneDBTimerC = FALSE
    /\ afterC = FALSE
    /\ threshold = 0
    /\ reqs = <<>>
    /\ batchSize = 0
    /\ lastErr = FALSE
    /\ hist = NoHist

InitPipeline ==
    /\ store \in DiskStores
    /\ sequence = Cardinality(DOMAIN store)
    /\ storeOpen = FALSE
    /\ bucketExists = (store # FreshDisk)
    /\ now = Instants[1]
    /\ loc = 0
    /\ result = NoResult
    /\ initPc = "open"
    /\ PipelineAtStart


\* A process that serve's error branches end as well (log.Fatalln in place
\* of log.Println).
AliveUntilError == initPc # "fatal" /\ ~lastErr

\* log.Fatalln has not ended the process.
Alive == initPc # "fatal"

\* requestChan has been made; before that it is nil, and a send on it blocks.
ChanMade == initPc \in {"serve", "done"}

\* The goroutine serve has made its tickers and runs its loop.
Serving == servePc \notin {"off", "start"}

\* Init: bolt.Open("analytics.db", ...), fatal on error.
InitOpen ==
    /\ initPc = "open"
    /\ \E ok \in BOOLEAN :
          /\ storeOpen' = ok
          /\ initPc' = IF ok THEN "bucket" ELSE "fatal"
    /\ UNCHANGED <<store, sequence, bucketExists, requestChan, now, reportVars, recVars,
                   timerVars, serveVars, hist>>

\* An Init that logs the error of the Update with log.Println and goes on.
InitBucketNoFatal ==
    /\ initPc = "bucket"
    /\ \E ok \in BOOLEAN : bucketExists' = (bucketExists \/ ok)
    /\ initPc' = "chan"
    /\ UNCHANGED <<store, sequence, storeOpen, requestChan, now, reportVars,
                   recVars, timerVars, serveVars, hist>>

\* Init: CreateBucketIfNotExists("requests") in an Update, fatal on error.
InitBucket ==
    /\ initPc = "bucket"
    /\ \E ok \in BOOLEAN :
          /\ bucketExists' = (bucketExists \/ ok)
          /\ initPc' = IF ok THEN "chan" ELSE "fatal"
    /\ UNCHANGED <<store, sequence, storeOpen, requestChan, now, reportVars,
                   recVars, timerVars, serveVars, hist>>

\* Init: requestChan = make(chan apiRequest, ...)
InitChan ==
    /\ initPc = "chan"
    /\ requestChan' = <<>>
    /\ initPc' = "serve"
    /\ UNCHANGED <<storeVars, now, reportVars, recVars, timerVars, serveVars, hist>>

\* Init: go serve(), then return.
InitServe ==
    /\ initPc = "serve"
    /\ servePc' = "start"
    /\ initPc' = "done"
    /\ UNCHANGED <<storeVars, requestChan, now, reportVars, recVars, timerVars,
                   threshold, reqs, batchSize, lastErr, hist>>

\* The clock moves on to its next value.
Tick ==
    /\ Alive
    /\ \E i \in 1 .. (Len(Instants) - 1) : now = Instants[i] /\ now' = Instants[i + 1]
    /\ UNCHANGED <<storeVars, requestChan, reportVars, initPc, recVars, timerVars,
                   serveVars, hist>>

\* Record, up to the send: build r, stamped with the clock.
RecordBuild(p) ==
    /\ Alive
    /\ recPc[p] = "idle"
    /\ \E req \in Requests(p) :
          recR' = [recR EXCEPT ![p] = NewRequest(req, now)]
    /\ recPc' = [recPc EXCEPT ![p] = "send"]
    /\ UNCHANGED <<storeVars, requestChan, now, reportVars, initPc, timerVars,
                   serveVars, hist>>

\* requestChan <- r finds no room: the caller parks until there is room.
\* On the nil channel (Init has not made it yet) the caller parks for good.
RecordBlock(p) ==
    /\ Alive
    /\ recPc[p] = "send"
    /\ ~ChanMade \/ Len(requestChan) >= QueueCap
    /\ recPc' = [recPc EXCEPT ![p] = IF ChanMade THEN "blocked" ELSE "nil"]
    /\ UNCHANGED <<storeVars, requestChan, now, reportVars, initPc, recR,
                   timerVars, serveVars, hist>>

\* A send that does not wait: with no room the record is dropped and Record
\* returns (select with a default case).
RecordSendOrDrop(p) ==
    /\ Alive
    /\ recPc[p] \in {"send", "blocked"}
    /\ ChanMade
    /\ requestChan' = IF Len(requestChan) < QueueCap
                      THEN Append(requestChan, recR[p]) ELSE requestChan
    /\ recPc' = [recPc EXCEPT ![p] = "done"]
    /\ recR' = [recR EXCEPT ![p] = ZeroRequest]
    /\ hist' = [hist EXCEPT
                  !.sent = IF Len(requestChan) < QueueCap THEN @ \cup {recR[p]} ELSE @,
                  !.returned = @ \cup {recR[p]}]
    /\ UNCHANGED <<storeVars, now, reportVars, initPc, timerVars, serveVars>>

\* requestChan <- r completes, and Record returns.
RecordSend(p) ==
    /\ Alive
    /\ recPc[p] \in {"send", "blocked"}
    /\ ChanMade
    /\ Len(requestChan) < QueueCap
    /\ requestChan' = Append(requestChan, recR[p])
    /\ recPc' = [recPc EXCEPT ![p] = "done"]
    /\ recR' = [recR EXCEPT ![p] = ZeroRequest]
    /\ hist' = [hist EXCEPT !.sent = @ \cup {recR[p]},
                            !.returned = @ \cup {recR[p]},
                            !.unblocked = @ \/ (recPc[p] = "blocked")]
    /\ UNCHANGED <<storeVars, now, reportVars, initPc, timerVars, serveVars>>

\* serve: apiRequestTimer and pruneDBTimer are made; the loop begins.
ServeStart ==
    /\ Alive
    /\ servePc = "start"
    /\ servePc' = "select"
    /\ UNCHANGED <<storeVars, requestChan, now, reportVars, initPc, recVars,
                   timerVars, threshold, reqs, batchSize, lastErr, hist>>

\* The flush ticker fires; its channel holds one tick, a further one is dropped.
ApiRequestTimerFires ==
    /\ Alive
    /\ Serving
    /\ ~apiRequestTimerC
    /\ apiRequestTimerC' = TRUE
    /\ UNCHANGED <<storeVars, requestChan, now, reportVars, initPc, recVars,
                   pruneDBTimerC, afterC, serveVars, hist>>

\* The prune ticker fires.
PruneDBTimerFires ==
    /\ Alive
    /\ Serving
    /\ ~pruneDBTimerC
    /\ pruneDBTimerC' = TRUE
    /\ UNCHANGED <<storeVars, requestChan, now, reportVars, initPc, recVars,
                   apiRequestTimerC, afterC, serveVars, hist>>

\* The time.After(30 s) of the select serve waits in fires.
AfterFires ==
    /\ Alive
    /\ servePc = "select"
    /\ ~afterC
    /\ afterC' = TRUE
    /\ UNCHANGED <<storeVars, requestChan, now, reportVars, initPc, recVars,
                   apiRequestTimerC, pruneDBTimerC, serveVars, hist>>

\* A flush case that also takes the tick waiting in pruneDBTimer.C.
ServeFlushCaseDrainsBoth ==
    /\ Alive
    /\ servePc = "select"
    /\ apiRequestTimerC
    /\ apiRequestTimerC' = FALSE
    /\ pruneDBTimerC' = FALSE
    /\ afterC' = FALSE
    /\ servePc' = "insert"
    /\ UNCHANGED <<storeVars, requestChan, now, reportVars, initPc, recVars,
                   threshold, reqs, batchSize, lastErr, hist>>

\* A flush case that takes the tick and goes round the loop without the
\* call of batchInsert.
ServeFlushCaseSkip ==
    /\ Alive
    /\ servePc = "select"
    /\ apiRequestTimerC
    /\ apiRequestTimerC' = FALSE
    /\ afterC' = FALSE
    /\ UNCHANGED <<storeVars, requestChan, now, reportVars, initPc, recVars,
                   pruneDBTimerC, serveVars, hist>>

\* select, case <-apiRequestTimer.C: call batchInsert(requestChan).
ServeFlushCase ==
    /\ Alive
    /\ servePc = "select"
    /\ apiRequestTimerC
    /\ apiRequestTimerC' = FALSE
    /\ afterC' = FALSE
    /\ servePc' = "insert"
    /\ UNCHANGED <<storeVars, requestChan, now, reportVars, initPc, recVars,
                   pruneDBTimerC, threshold, reqs, batchSize, lastErr, hist>>

\* The period of the prune ticker passed in place of the threshold.
PruneArgumentInterval == pruneThreshold \div 2

\* The threshold serve passes to batchPrune.
PruneArgument == pruneThreshold

\* select, case <-pruneDBTimer.C: call batchPrune(pruneThreshold).
ServePruneCase ==
    /\ Alive
    /\ servePc = "select"
    /\ pruneDBTimerC
    /\ pruneDBTimerC' = FALSE
    /\ afterC' = FALSE
    /\ threshold' = PruneArgument
    /\ servePc' = "prune"
    /\ UNCHANGED <<storeVars, requestChan, now, reportVars, initPc, recVars,
                   apiRequestTimerC, reqs, batchSize, lastErr, hist>>

\* A timeout case that calls batchInsert.
ServeAfterCaseFlush ==
    /\ Alive
    /\ servePc = "select"
    /\ afterC
    /\ afterC' = FALSE
    /\ servePc' = "insert"
    /\ UNCHANGED <<storeVars, requestChan, now, reportVars, initPc, recVars,
                   apiRequestTimerC, pruneDBTimerC, threshold, reqs, batchSize,
                   lastErr, hist>>

\* select, case <-time.After(30 s): continue.
ServeAfterCase ==
    /\ Alive
    /\ servePc = "select"
    /\ afterC
    /\ afterC' = FALSE
    /\ UNCHANGED <<storeVars, requestChan, now, reportVars, initPc, recVars,
                   apiRequestTimerC, pruneDBTimerC, serveVars, hist>>


-----------------------------------------------------------------------------
(* batchInsert and batchPrune, after sections 4.3 and 4.4 of the specification *)

\* A flush that writes record by record, each in a transaction of its own:
\* when one fails, the records before it (here: the first) stay written.
InsertTxPartial(b, seq, batch, ok) ==
    IF ok \/ batch = <<>>
    THEN [err |-> ~ok,
          bucket |-> [k \in (DOMAIN b) \cup ((seq + 1) .. (seq + Len(batch))) |->
                         IF k \in DOMAIN b THEN b[k] ELSE Marshal(batch[k - seq])],
          seq |-> seq + Len(batch)]
    ELSE [err |-> TRUE,
          bucket |-> [k \in (DOMAIN b) \cup {seq + 1} |->
                         IF k \in DOMAIN b THEN b[k] ELSE Marshal(batch[1])],
          seq |-> seq + 1]

\* The write transaction of a flush: every record of the batch under a key
\* of its own from the bucket's sequence, or nothing at all.
InsertTx(b, seq, batch, ok) ==
    IF ~ok THEN [err |-> TRUE, bucket |-> b, seq |-> seq]
    ELSE [err |-> FALSE,
          bucket |-> [k \in (DOMAIN b) \cup ((seq + 1) .. (seq + Len(batch))) |->
                         IF k \in DOMAIN b THEN b[k] ELSE Marshal(batch[k - seq])],
          seq |-> seq + Len(batch)]

RECURSIVE SkippingFrom(_, _, _, _, _, _)
SkippingFrom(b, keys, i, t, d, skip) ==
    IF i > Len(keys) THEN {}
    ELSE LET u   == Unmarshal(b[keys[i]])
             old == ~u.err /\ u.r.Timestamp < (t - d) * MillisPerSecond
         IN  IF old /\ ~skip
             THEN {keys[i]} \cup SkippingFrom(b, keys, i + 1, t, d, TRUE)
             ELSE SkippingFrom(b, keys, i + 1, t, d, FALSE)

\* A prune that deletes while it iterates and so steps over the key that
\* follows each deleted key.
ExpiredSkipping(b, t, d) == SkippingFrom(b, KeysInOrder(DOMAIN b), 1, t, d, FALSE)

\* The keys a prune at clock t with threshold d deletes: the values that
\* decode and whose timestamp is strictly older than the cutoff t - d.
Expired(b, t, d) ==
    {k \in DOMAIN b :
        /\ ~Unmarshal(b[k]).err
        /\ Unmarshal(b[k]).r.Timestamp < (t - d) * MillisPerSecond}

\* The read/delete transaction of a prune.
PruneTx(b, t, d, ok) ==
    IF ~ok THEN [err |-> TRUE, bucket |-> b]
    ELSE [err |-> FALSE,
          bucket |-> [k \in (DOMAIN b) \ Expired(b, t, d) |-> b[k]]]

\* batchInsert: note what is queued now.
BatchInsertBegin ==
    /\ Alive
    /\ servePc = "insert"
    /\ batchSize' = Len(requestChan)
    /\ reqs' = <<>>
    /\ servePc' = "drain"
    /\ UNCHANGED <<storeVars, requestChan, now, reportVars, initPc, recVars,
                   timerVars, threshold, lastErr, hist>>

\* batchInsert: receive one queued record without waiting.
BatchInsertReceive ==
    /\ Alive
    /\ servePc = "drain"
    /\ requestChan # <<>>
    /\ reqs' = Append(reqs, Head(requestChan))
    /\ requestChan' = Tail(requestChan)
    /\ UNCHANGED <<storeVars, now, reportVars, initPc, recVars, timerVars, servePc,
                   threshold, batchSize, lastErr, hist>>

\* batchInsert: once everything that was queued when the drain began is
\* received, the transaction; serve logs its error and goes on.  An empty
\* batch is no error.  A failed transaction loses the batch.
BatchInsertCommit ==
    /\ Alive
    /\ servePc = "drain"
    /\ Len(reqs) >= batchSize
    /\ \E ok \in BOOLEAN :
          /\ ok => storeOpen
          /\ reqs = <<>> => ok
          /\ LET tx == InsertTx(store, sequence, reqs, ok)
             IN  /\ store' = tx.bucket
                 /\ sequence' = tx.seq
                 /\ lastErr' = tx.err
                 /\ hist' = [hist EXCEPT
                        !.lost = IF ok THEN @ ELSE @ \cup {reqs[i] : i \in 1 .. Len(reqs)},
                        !.prunedAt = IF ok /\ reqs # <<>> THEN -1 ELSE @,
                        !.repeated = IF ok /\ reqs # <<>> THEN FALSE ELSE @]
    /\ reqs' = <<>>
    /\ batchSize' = 0
    /\ afterC' = FALSE
    /\ servePc' = "select"
    /\ UNCHANGED <<storeOpen, bucketExists, requestChan, now, reportVars, initPc,
                   recVars, apiRequestTimerC, pruneDBTimerC, threshold>>

\* batchPrune(threshold): the transaction; serve logs its error and goes on.
BatchPrune ==
    /\ Alive
    /\ servePc = "prune"
    /\ \E ok \in BOOLEAN :
          /\ ok => storeOpen
          /\ LET tx == PruneTx(store, now, threshold, ok)
             IN  /\ store' = tx.bucket
                 /\ lastErr' = tx.err
                 /\ hist' = [hist EXCEPT
                        !.deleted = @ \cup {store[k] : k \in (DOMAIN store) \ DOMAIN tx.bucket},
                        !.prunedAt = IF ok THEN now ELSE @,
                        !.repeated = IF ok THEN hist.prunedAt = now ELSE @]
    /\ afterC' = FALSE
    /\ threshold' = 0
    /\ servePc' = "select"
    /\ UNCHANGED <<sequence, storeOpen, bucketExists, requestChan, now, reportVars,
                   initPc, recVars, apiRequestTimerC, pruneDBTimerC, reqs, batchSize>>

-----------------------------------------------------------------------------
(* The pipeline as a whole *)

Next ==
    \/ InitOpen
    \/ InitBucket
    \/ InitChan
    \/ InitServe
    \/ Tick
    \/ \E p \in Callers : RecordBuild(p)
    \/ \E p \in Callers : RecordBlock(p)
    \/ \E p \in Callers : RecordSend(p)
    \/ ServeStart
    \/ ApiRequestTimerFires
    \/ PruneDBTimerFires
    \/ AfterFires
    \/ ServeFlushCase
    \/ ServePruneCase
    \/ ServeAfterCase
    \/ BatchInsertBegin
    \/ BatchInsertReceive
    \/ BatchInsertCommit
    \/ BatchPrune

Spec == InitPipeline /\ [][Next]_vars

\* What the scheduling gives: the flush ticker keeps firing; the goroutine
\* serve is not held up inside batchInsert or batchPrune; a select with
\* several ready cases picks among them at random, so a case that is ready
\* again and again is taken in the end; a sender parked on the channel goes
\* on once there is room.
Fairness ==
    /\ WF_vars(ApiRequestTimerFires)
    /\ SF_vars(ServeFlushCase)
    /\ WF_vars(BatchInsertBegin)
    /\ WF_vars(BatchInsertReceive)
    /\ WF_vars(BatchInsertCommit)
    /\ WF_vars(BatchPrune)
    /\ \A p \in Callers : WF_vars(RecordSend(p))

SpecFair == Spec /\ Fairness

-----------------------------------------------------------------------------
(* The report on its own: any store, any clock, any zone *)

\* Largest number of records in a store the report is run on.
MaxRecords == 3

ReportToday == 16 * SecondsPerDay

ReportInstants == {ReportToday + 2 * SecondsPerHour, ReportToday + 20 * SecondsPerHour}

Zones == {(-5) * SecondsPerHour, 0, 9 * SecondsPerHour}

ReportAddrs == {"10.0.0.1:5000", "10.0.0.2:5000"}

ReportTimestamps ==
    {(B(ReportToday)[k] + h * SecondsPerHour) * MillisPerSecond :
        <<k, h>> \in {<<0, -1>>, <<0, 0>>, <<0, 1>>, <<8, 1>>, <<13, 0>>, <<13, 1>>}}

ReportValues ==
    {Marshal(RequestAt(a, ts)) : a \in ReportAddrs, ts \in ReportTimestamps}
        \cup {Undecodable}

BoundaryAddrs ==
    <<"10.0.1.0:80", "10.0.1.1:80", "10.0.1.2:80", "10.0.1.3:80", "10.0.1.4:80",
      "10.0.1.5:80", "10.0.1.6:80", "10.0.1.7:80", "10.0.1.8:80", "10.0.1.9:80",
      "10.0.1.10:80", "10.0.1.11:80", "10.0.1.12:80", "10.0.1.13:80">>

\* One record at midnight UTC of each of the last 14 days, each from its own caller.
BoundaryStore ==
    [i \in 1 .. NumDays |->
        Marshal(RequestAt(BoundaryAddrs[i], B(ReportToday)[i - 1] * MillisPerSecond))]

\* One record 15 days older than today.
OldStore ==
    [i \in 1 .. 1 |->
        Marshal(RequestAt("10.0.0.1:5000",
                          (ReportToday - 15 * SecondsPerDay) * MillisPerSecond))]

ReportStores ==
    UNION {[1 .. n -> ReportValues] : n \in 0 .. MaxRecords}
        \cup {BoundaryStore, OldStore}

InitReport ==
    /\ now \in ReportInstants
    /\ loc \in Zones
    /\ store \in ReportStores
    /\ sequence = Cardinality(DOMAIN store)
    /\ storeOpen = TRUE
    /\ bucketExists = TRUE
    /\ result = NoResult
    /\ initPc = "done"
    /\ PipelineAtStart

\* A call of ChartData: the read is one View transaction.
ChartData ==
    /\ result' = ChartDataResult(store, storeOpen, now, loc)
    /\ UNCHANGED <<storeVars, requestChan, now, loc, initPc, recVars, timerVars,
                   serveVars, hist>>

\* Close: store.Close().
Close ==
    /\ storeOpen
    /\ storeOpen' = FALSE
    /\ UNCHANGED <<store, sequence, bucketExists, requestChan, now, reportVars, initPc, recVars,
                   timerVars, serveVars, hist>>

NextReport == ChartData \/ Close

SpecReport == InitReport /\ [][NextReport]_vars

-----------------------------------------------------------------------------
(* Claims about the report *)

\* The timestamp (milliseconds) of the decodable record under key i.
TimestampOf(b, i) == Unmarshal(b[i]).r.Timestamp

\* C1: every decodable record is counted in exactly the bucket section 4.5
\* assigns to its timestamp, and in no other: total[k] is the number of
\* decodable records with timestamp in [B[k], B[k+1]), or in [B[13], +inf)
\* for k = 13.  Stated for a process in the UTC zone, where the today of
\* the code is the today of section 4.5 (see C7), so that it is the
\* bucketing alone that decides.
C1_EachRecordInItsBucket ==
    (Returned(result) /\ loc = 0) =>
        \A k \in Buckets :
            TotalOf(result)[k] =
                Cardinality({i \in Decodable(store) :
                                BucketOf(TimestampOf(store, i), result.at) = k})

\* C2: a call that returns without error returns 14 date labels, 14 totals
\* and 14 unique counts; on an empty store all 28 counts are 0.
C2_FourteenEntries ==
    Returned(result) =>
        /\ Cardinality(DOMAIN result.ret.dates) = 14
        /\ Len(ParseInts(result.ret.total)) = 14
        /\ Len(ParseInts(result.ret.unique)) = 14
        /\ DOMAIN store = {} =>
               \A i \in 1 .. 14 : /\ ParseInts(result.ret.total)[i] = 0
                                  /\ ParseInts(result.ret.unique)[i] = 0

\* C2 witness: a report of the empty store has been returned.
C2_Witness == Returned(result) /\ DOMAIN store = {}

\* C7: today is UTC midnight of the current instant, in every zone: the
\* greatest UTC midnight that is <= now, which is also the day of label "to".
C7_TodayIsUTCMidnight ==
    Returned(result) =>
        /\ Today(result.at, loc) = UTCMidnight(result.at)
        /\ result.ret.to = FormatMMDD(UTCMidnight(result.at))

\* C8: with exactly one record at midnight UTC of each of the last 14 days,
\* each from its own caller, total[i] = unique[i] = 1 for every i in 0..13.
C8_OnePerBoundary ==
    (Returned(result) /\ store = BoundaryStore) =>
        \A k \in Buckets : TotalOf(result)[k] = 1 /\ UniqueOf(result)[k] = 1

\* The statement of C8 for a process in the UTC zone only.
C8_InUTC == loc = 0 => C8_OnePerBoundary

\* C9: when the last two records of the store are from one caller on one UTC
\* day of the window, and that caller has no other record on that day, the
\* report has that day's total 2 higher and that day's unique count 1 higher
\* than the report of the store without the two.  Stated for a process in
\* the UTC zone, as C1 is.
C9_SameCallerSameDay ==
    LET n == Cardinality(DOMAIN store)
    IN  (Returned(result) /\ loc = 0 /\ n >= 2 /\ DOMAIN store = 1 .. n
            /\ {n - 1, n} \subseteq Decodable(store)) =>
        LET r1     == Unmarshal(store[n - 1]).r
            r2     == Unmarshal(store[n]).r
            k      == BucketOf(r1.Timestamp, result.at)
            base   == [i \in 1 .. (n - 2) |-> store[i]]
            before == ChartDataResult(base, TRUE, result.at, loc)
        IN  (/\ r1.RemoteAddr = r2.RemoteAddr
             /\ k \in Buckets
             /\ UTCMidnight(GoDiv(r1.Timestamp, MillisPerSecond))
                    = UTCMidnight(GoDiv(r2.Timestamp, MillisPerSecond))
             /\ UTCMidnight(GoDiv(r1.Timestamp, MillisPerSecond)) = B(result.at)[k]
             /\ \A i \in Decodable(base) :
                    Unmarshal(base[i]).r.RemoteAddr = r1.RemoteAddr
                        => BucketOf(TimestampOf(base, i), result.at) # k)
            => /\ TotalOf(result)[k] = TotalOf(before)[k] + 2
               /\ UniqueOf(result)[k] = UniqueOf(before)[k] + 1

\* C10: records older than B[0] change no total and no unique count, and
\* the report never indexes a bucket outside 0..13.
C10_OldRecordExcluded ==
    (result.called /\ ~result.err) =>
        /\ ~result.panic
        /\ LET old  == {i \in Decodable(store) :
                           TimestampOf(store, i) < B(result.at)[0] * MillisPerSecond}
               rest == [i \in (DOMAIN store) \ old |-> store[i]]
               without == ChartDataResult(rest, TRUE, result.at, loc)
           IN  /\ TotalOf(result) = TotalOf(without)
               /\ UniqueOf(result) = UniqueOf(without)

\* The statement of C10 for a process in the UTC zone only.
C10_InUTC == loc = 0 => C10_OldRecordExcluded

\* The keys of a complete result.
ResultKeys == {"dates", "unique", "total", "from", "to"}

\* A serialized series from its opening to its closing bracket.
IsSeries(s) == Len(s) >= 2 /\ s[1] = "[" /\ s[Len(s)] = "]"

\* C11: every call of ChartData ends in exactly one of two ways: a nil error
\* and a result with all of dates, unique, total, from and to (14 labels, two
\* whole series, from and to the first and the last label), or an error and
\* a nil result; a failed read of the store yields no part of a result.
C11_ResultOrError ==
    result.called =>
        /\ ~result.panic
        /\ IF result.err
           THEN Cardinality(DOMAIN result.ret) = 0
           ELSE /\ DOMAIN result.ret = ResultKeys
                /\ DOMAIN result.ret.dates = Buckets
                /\ IsSeries(result.ret.unique)
                /\ IsSeries(result.ret.total)
                /\ result.ret.from = result.ret.dates[0]
                /\ result.ret.to = result.ret.dates[NumDays - 1]

\* C11 witness: a call on a closed store has returned its error, from a
\* store that holds records.
C11_Witness == result.called /\ result.err /\ ~storeOpen /\ DOMAIN store # {}

\* Bucket b without the values that do not decode.
WithoutUndecodable(b) == [k \in Decodable(b) |-> b[k]]

\* C17: a stored value that does not decode never aborts ChartData: a call
\* on an open store returns no error, and its series of totals and of unique
\* counts are those of the same call on the store with the undecodable
\* values removed.
C17_UndecodableSkipped ==
    /\ (result.called /\ storeOpen) => Returned(result)
    /\ Returned(result) =>
          LET without == ChartDataResult(WithoutUndecodable(store), TRUE,
                                         result.at, loc)
          IN  /\ Returned(without)
              /\ result.ret.total = without.ret.total
              /\ result.ret.unique = without.ret.unique

\* C17 witness: a report has been returned for a store whose first value
\* does not decode and is followed by a record on or after today.
C17_Witness ==
    /\ Returned(result)
    /\ Cardinality(DOMAIN store) >= 2
    /\ 1 \notin Decodable(store)
    /\ 2 \in Decodable(store)
    /\ TotalOf(result)[NumDays - 1] >= 1

RECURSIVE SumUpTo(_, _)
\* f[0] + ... + f[k]
SumUpTo(f, k) == IF k < 0 THEN 0 ELSE f[k] + SumUpTo(f, k - 1)

\* C18: no record is counted in more than one bucket: the 14 totals add up
\* to the number of decodable records with timestamp >= B[0], and no bucket
\* counts more records than there are with a timestamp on its day or later
\* (none is counted on a day later than its own).  Stated for a process in
\* the UTC zone, as C1 is.
C18_CountedOnce ==
    (Returned(result) /\ loc = 0) =>
        /\ SumUpTo(TotalOf(result), NumDays - 1) =
              Cardinality({i \in Decodable(store) :
                  TimestampOf(store, i) >= B(result.at)[0] * MillisPerSecond})
        /\ \A k \in Buckets :
              TotalOf(result)[k] <=
                  Cardinality({i \in Decodable(store) :
                      BucketOf(TimestampOf(store, i), result.at) >= k})

-----------------------------------------------------------------------------
(* Claims about the pipeline *)

\* How often event e is in a sequence of events.
CountSeq(e, q) == Cardinality({i \in 1 .. Len(q) : q[i] = e})

\* How often event e is in a bucket, after decoding.
CountStore(e, b) == Cardinality({k \in Decodable(b) : Unmarshal(b[k]).r = e})

\* Every event of a returned Record call is in exactly one place: the queue,
\* the batch being drained, the store, a batch lost to a failed transaction,
\* or the set of values a prune deleted.
Conserved ==
    \A e \in hist.returned :
        CountSeq(e, requestChan) + CountSeq(e, reqs) + CountStore(e, store)
            + (IF e \in hist.lost THEN 1 ELSE 0)
            + (IF Marshal(e) \in hist.deleted THEN 1 ELSE 0) = 1

\* A flush ends without error in this step.
FlushSucceeds == servePc = "drain" /\ servePc' = "select" /\ ~lastErr'

\* A prune ends without error in this step.
PruneSucceeds == servePc = "prune" /\ servePc' = "select" /\ ~lastErr'

C4_RecordBlocksWhenFull ==
    [][/\ Len(requestChan') <= QueueCap
       /\ hist.returned' \subseteq hist.sent'
       /\ \A p \in Callers :
            /\ (recPc[p] \in {"send", "blocked"} /\ Len(requestChan) >= QueueCap)
                  => (recPc'[p] \in {"send", "blocked"} /\ recR'[p] = recR[p])
            /\ (recPc[p] \in {"send", "blocked"} /\ recPc'[p] = "done")
                  => requestChan' = Append(requestChan, recR[p])]_vars

\* C4 witness: a caller that had parked on the full queue has enqueued its
\* event and returned, and the queue is full again.
C4_Witness == hist.unblocked /\ Len(requestChan) = QueueCap

\* C5: after a prune without error run at clock now, no decodable record of
\* the store is strictly older than now - 14 days, and every record that was
\* there with timestamp >= now - 14 days is still there, unchanged.
C5_PruneRespectsRetention ==
    [][PruneSucceeds =>
        LET cutoff == (now - 14 * SecondsPerDay) * MillisPerSecond
        IN  /\ \A k \in Decodable(store') : TimestampOf(store', k) >= cutoff
            /\ \A k \in Decodable(store) :
                  TimestampOf(store, k) >= cutoff
                      => (k \in DOMAIN store' /\ store'[k] = store[k])]_vars

\* C5 witness: a prune without error has deleted a record, and a record
\* exactly 14 days old is still in the store.
C5_Witness ==
    /\ hist.prunedAt = now
    /\ hist.deleted # {}
    /\ \E k \in Decodable(store) :
          TimestampOf(store, k) = (now - 14 * SecondsPerDay) * MillisPerSecond

\* C6 as stated: a prune that runs after a prune without error, with no
\* write to the store in between, leaves the set of records as it was.
C6_PruneTwiceSameSet ==
    [][(PruneSucceeds /\ hist.prunedAt # -1) => store' = store]_vars

\* C6 amended: a prune that runs after a prune without error, with no write
\* in between and at the same clock value (the same cutoff), leaves the set
\* of records as it was, and its transaction deletes nothing and raises no
\* error of its own.
C6_PruneTwiceSameCutoff ==
    [][(servePc = "prune" /\ servePc' = "select" /\ hist.prunedAt = now) =>
          /\ store' = store
          /\ PruneTx(store, now, threshold, TRUE) = [err |-> FALSE, bucket |-> store]]_vars

\* C6 witness: a second prune without error has run at the clock value of
\* the first, which had deleted records.
C6_Witness == hist.repeated /\ hist.deleted # {} /\ ~lastErr


\* A flush ends in this step, with or without error.
FlushEnds == servePc = "drain" /\ servePc' = "select"

\* C12: a flush is all-or-nothing.  When its transaction fails, the store
\* is as it was, none of the drained records is in it and none is back on
\* the queue; when it succeeds, every drained record is in the store.  The
\* store changes during a flush only in the step that ends it, so no state
\* of the store holds part of a batch: while a batch is being drained none
\* of its records is in the store.
C12_FlushAllOrNothing ==
    [][/\ (FlushEnds /\ lastErr') =>
            /\ store' = store
            /\ requestChan' = requestChan
            /\ \A i \in 1 .. Len(reqs) :
                  /\ CountStore(reqs[i], store') = 0
                  /\ CountSeq(reqs[i], requestChan') = 0
                  /\ reqs[i] \in hist.lost'
       /\ (FlushEnds /\ ~lastErr') =>
            \A i \in 1 .. Len(reqs) : CountStore(reqs[i], store') = 1
       /\ (servePc \in {"insert", "drain"} /\ ~FlushEnds) => store' = store
       /\ servePc' = "drain" =>
            \A i \in 1 .. Len(reqs') : CountStore(reqs'[i], store') = 0]_vars

\* C12 witness: failed flushes have lost two recorded events; neither is in
\* the store or on the queue.
C12_Witness ==
    /\ lastErr
    /\ servePc = "select"
    /\ Cardinality(hist.lost) = 2
    /\ \A e \in hist.lost :
          CountStore(e, store) = 0 /\ CountSeq(e, requestChan) = 0

C14_ErrorNeverStopsLoop ==
    lastErr =>
        /\ Alive
        /\ servePc \in {"select", "insert", "drain", "prune"}
        /\ ~apiRequestTimerC => ENABLED ApiRequestTimerFires
        /\ ~pruneDBTimerC => ENABLED PruneDBTimerFires
        /\ (servePc = "select" /\ apiRequestTimerC) => ENABLED ServeFlushCase
        /\ (servePc = "select" /\ pruneDBTimerC) => ENABLED ServePruneCase
        /\ servePc = "insert" => ENABLED BatchInsertBegin
        /\ servePc = "prune" => ENABLED BatchPrune

\* C14 witness: after an invocation that returned an error, both tickers
\* have fired again and the select is about to take one of the two ticks.
C14_Witness ==
    lastErr /\ servePc = "select" /\ apiRequestTimerC /\ pruneDBTimerC

\* serve takes a ready case of its select in this step.
WakeUp ==
    /\ servePc = "select"
    /\ \/ apiRequestTimerC /\ ~apiRequestTimerC'
       \/ pruneDBTimerC /\ ~pruneDBTimerC'
       \/ afterC /\ ~afterC'

\* C15 as stated: every wake-up of serve's loop invokes batchInsert or
\* batchPrune.
C15_WakesOnlyOnTickers ==
    [][WakeUp => servePc' \in {"insert", "prune"}]_vars

\* C15 amended: serve's loop wakes on one of three events: a tick of the
\* flush ticker, which invokes batchInsert; a tick of the prune ticker, which
\* invokes batchPrune; or the 30-second timeout of the select, which invokes
\* neither and changes nothing but the timeout itself.  Nothing else moves
\* serve out of its select.
C15_WakesOnTickersOrTimeout ==
    [][/\ WakeUp =>
            \/ /\ apiRequestTimerC /\ ~apiRequestTimerC'
               /\ servePc' = "insert"
               /\ pruneDBTimerC' = pruneDBTimerC
            \/ /\ pruneDBTimerC /\ ~pruneDBTimerC'
               /\ servePc' = "prune"
               /\ apiRequestTimerC' = apiRequestTimerC
            \/ /\ afterC /\ ~afterC'
               /\ servePc' = "select"
               /\ UNCHANGED <<storeVars, requestChan, apiRequestTimerC,
                              pruneDBTimerC, serveVars, hist>>
       /\ (servePc = "select" /\ servePc' # "select") => WakeUp
       /\ servePc' = "insert" /\ servePc # "insert"
             => (apiRequestTimerC /\ ~apiRequestTimerC')
       /\ servePc' = "prune" /\ servePc # "prune"
             => (pruneDBTimerC /\ ~pruneDBTimerC')]_vars

\* C15 witness: serve waits in its select, neither ticker has a tick
\* waiting, and the timeout has fired: the loop is about to wake and invoke
\* nothing.
C15_Witness ==
    servePc = "select" /\ afterC /\ ~apiRequestTimerC /\ ~pruneDBTimerC

\* Caller p's send completes in this step.
Enqueues(p) == recPc[p] \in {"send", "blocked"} /\ recPc'[p] = "done"

\* C16 as stated: a record is never enqueued after a record with a greater
\* timestamp.
C16_TimestampsInEnqueueOrder ==
    [][\A p \in Callers :
          Enqueues(p) => \A e \in hist.sent : e.Timestamp <= recR[p].Timestamp]_vars

\* C16 amended: a record's timestamp is the clock, in milliseconds, of an
\* instant between the start of the process and its own enqueue step; and a
\* record whose Record call began after another record had been enqueued
\* has a timestamp that is not smaller than that record's.
C16_TimestampsInCallOrder ==
    [][\A p \in Callers :
          /\ Enqueues(p) =>
                /\ recR[p].Timestamp <= now * MillisPerSecond
                /\ recR[p].Timestamp >= Instants[1] * MillisPerSecond
          /\ (recPc[p] = "idle" /\ recPc'[p] = "send") =>
                \A e \in hist.sent : e.Timestamp <= recR'[p].Timestamp]_vars

\* C16 witness: two records with different timestamps have been enqueued.
C16_Witness ==
    \E e1, e2 \in hist.sent : e1.Timestamp < e2.Timestamp

\* C19: batchInsert and batchPrune never run at the same time: an invocation
\* begins only from the select, and until it has ended serve takes no other
\* case; and a tick that waits in a ticker's channel leaves it only by the
\* step of the select that invokes its operation, so that when both tickers
\* have a tick waiting, the tick of the one not chosen is still there when
\* the chosen operation has ended.
C19_OneOperationAtATime ==
    [][/\ servePc \in {"insert", "drain"} => servePc' \in {"insert", "drain", "select"}
       /\ servePc = "prune" => servePc' \in {"prune", "select"}
       /\ servePc' \in {"insert", "prune"} /\ servePc' # servePc => servePc = "select"
       /\ (apiRequestTimerC /\ ~apiRequestTimerC')
             => (servePc = "select" /\ servePc' = "insert")
       /\ (pruneDBTimerC /\ ~pruneDBTimerC')
             => (servePc = "select" /\ servePc' = "prune")
       /\ (store' # store /\ servePc = "drain") => threshold = 0
       /\ (store' # store /\ servePc = "prune") => reqs = <<>>]_vars

\* C19 witness: a flush is draining the queue while a tick of the prune
\* ticker waits for the select.
C19_Witness == servePc = "drain" /\ reqs # <<>> /\ pruneDBTimerC

-----------------------------------------------------------------------------
(* Liveness *)

\* The event of caller p is on the queue.
Queued(p) ==
    \E i \in 1 .. Len(requestChan) : requestChan[i].URL[Len(requestChan[i].URL)] = QueryNames[p]

\* C20: while serve runs and the flush ticker keeps firing, every event on
\* the queue is in the end received by a flush, and every Record call parked
\* on the full queue in the end returns, whatever the timeout case and the
\* prune case of the select do in between.
C20_QueueEventuallyDrained ==
    \A p \in Callers :
        /\ (Serving /\ Queued(p)) ~> ~Queued(p)
        /\ (Serving /\ recPc[p] = "blocked") ~> (recPc[p] = "done")

\* C20 witness: a caller that had parked on the full queue has returned, and
\* its event and another have been received by flushes: the queue is empty
\* and serve is back in its select.
C20_Witness ==
    /\ hist.unblocked
    /\ Cardinality(hist.sent) = NumCallers
    /\ requestChan = <<>>
    /\ servePc = "select"
    /\ \A p \in Callers : recPc[p] = "done"

=============================================================================
